---- MODULE Spec2Model ----
(***************************************************************************)
(* A model of 436_GenAlg_Fixed.py: a genetic algorithm over permutations   *)
(* of plants.  Python lists are objects on a heap (heap[a] is the item     *)
(* sequence of the list at address a); populations, the sorted data frame  *)
(* and the incumbent hold addresses, so that aliasing is visible.          *)
(* Positions are 0-based as in the source; heap[a][p+1] is element p.      *)
(***************************************************************************)
EXTENDS Integers, Sequences, FiniteSets, TLC

\* Bounds of the model.
NumItems == 3
MaxPop == 2
MaxGen == 2
MaxMut == 2

VARIABLES
    neighbour_score,    \* the score table, [Items \X Items -> Int]
    population_size, num_generations, max_mutations, num_elite,
    heap,               \* Seq of item sequences: the list objects
    population,         \* Seq of addresses
    sorted_population,  \* Seq of rows [chrom |-> address, fit |-> Int]
    incumbent,          \* address of the incumbent list, None before line 21
    incumbent_score,
    total_fitness,
    new_population,     \* Seq of addresses
    generation,         \* number of generations evaluated so far
    pc,                 \* position in optimize_layout
    raised,             \* "" or the name of the exception that ended the call
    seen,               \* history: item orders of every chromosome evaluated
    elite_order,        \* history: item orders of the top num_elite rows at the last evaluation
    call                \* history: the last operator call made by the operator harness

vars == <<neighbour_score, population_size, num_generations, max_mutations,
          num_elite, heap, population, sorted_population, incumbent,
          incumbent_score, total_fitness, new_population, generation, pc,
          raised, seen, elite_order, call>>

config == <<neighbour_score, population_size, num_generations, max_mutations, num_elite>>

----------------------------------------------------------------------------
\* Values

\* The value of a Python name that holds no list.
None == 0

Items == 1..NumItems

\* The caller's list of plants, in the caller's order.
plants == [i \in 1..NumItems |-> i]

\* What shuffle() can leave in a list of the items: any arrangement.
Shuffles ==
    {s \in [1..NumItems -> Items] : \A i, j \in 1..NumItems : i # j => s[i] # s[j]}

IsPermutation(garden) ==
    /\ Len(garden) = NumItems
    /\ \A x \in Items : Cardinality({i \in 1..Len(garden) : garden[i] = x}) = 1

\* Score tables the caller may supply (every pair of items is defined).
ZeroTable == [p \in Items \X Items |-> 0]
ChainTable == [p \in Items \X Items |-> IF p[1] - p[2] \in {-1, 1} THEN 1 ELSE 0]
AsymTable ==
    [p \in Items \X Items |->
        IF p = <<1, 2>> THEN 2 ELSE IF p = <<2, 1>> THEN -1 ELSE 0]
Tables == {ZeroTable, ChainTable, AsymTable}

\* Python's index resolution on a sequence of n rows: the 1-based row for
\* index i (negative indices count from the end), 0 when out of bounds.
PyIndex(i, n) ==
    IF 0 <= i /\ i < n THEN i + 1
    ELSE IF -n <= i /\ i < 0 THEN n + i + 1
    ELSE 0

\* random.randrange(start, stop): the values it can return; it raises
\* ValueError when the range is empty.
randrange(start, stop) == start..(stop - 1)
randrange_raises(start, stop) == stop <= start

----------------------------------------------------------------------------
\* Fitness, ranking, selection

RECURSIVE fitness_from(_, _, _)
fitness_from(garden, score, i) ==
    IF i >= Len(garden) THEN 0
    ELSE score[<<garden[i], garden[i + 1]>>] + fitness_from(garden, score, i + 1)

get_fitness(garden, score) == fitness_from(garden, score, 1)

get_pop_fitness(h, pop, score) ==
    [i \in 1..Len(pop) |-> [chrom |-> pop[i], fit |-> get_fitness(h[pop[i]], score)]]

\* sort_values(by=1): the rows in ascending order of fitness.  The default
\* sort kind is not a stable one, so rows of equal fitness come in any order.
sort_population(population_fitness) ==
    LET n == Len(population_fitness)
        orders == {f \in [1..n -> 1..n] :
                      /\ \A i, j \in 1..n : i # j => f[i] # f[j]
                      /\ \A i \in 1..n - 1 :
                            population_fitness[f[i]].fit <= population_fitness[f[i + 1]].fit}
    IN {[i \in 1..n |-> population_fitness[f[i]]] : f \in orders}

RECURSIVE sum_fit(_, _)
sum_fit(rows, i) == IF i > Len(rows) THEN 0 ELSE rows[i].fit + sum_fit(rows, i + 1)

get_total_fitness(population_fitness) == sum_fit(population_fitness, 1)

\* uniform(0, total) is 0 + total * random() with random() in [0, 1).  The
\* cumulative sums are integers, so the draws at half-integer steps stand for
\* every real draw; a draw is kept doubled (random2 = 2 * random_val).
uniform2(total) ==
    IF total > 0 THEN 0..(2 * total - 1)
    ELSE IF total < 0 THEN (2 * total + 1)..0
    ELSE {0}

RECURSIVE walk_chromosome(_, _, _, _)
walk_chromosome(rows, random2, i, cumulative_sum) ==
    IF i > Len(rows) THEN None
    ELSE IF 2 * (cumulative_sum + rows[i].fit) > random2 THEN rows[i].chrom
    ELSE walk_chromosome(rows, random2, i + 1, cumulative_sum + rows[i].fit)

get_chromosome(rows, random2) == walk_chromosome(rows, random2, 1, 0)

----------------------------------------------------------------------------
\* Genetic operators

swap(h, chromosome, pos1, pos2) ==
    [h EXCEPT ![chromosome] =
        [@ EXCEPT ![pos1 + 1] = h[chromosome][pos2 + 1],
                  ![pos2 + 1] = h[chromosome][pos1 + 1]]]

\* The heaps reciprocal_exchange_chromosome can leave after num_mutations swaps.
RECURSIVE exchange_loop(_, _, _)
exchange_loop(h, chromosome, num_mutations) ==
    IF num_mutations = 0 THEN {h}
    ELSE UNION {exchange_loop(swap(h, chromosome, position1, position2),
                              chromosome, num_mutations - 1) :
                  position1 \in randrange(0, Len(h[chromosome])),
                  position2 \in randrange(0, Len(h[chromosome]))}

\* The heaps a call that returns can leave (it returns the same list).
reciprocal_exchange_chromosome(h, chromosome, max_mut) ==
    UNION {exchange_loop(h, chromosome, num_mutations) :
              num_mutations \in randrange(0, max_mut)}

reciprocal_exchange_raises(max_mut) == randrange_raises(0, max_mut)

RECURSIVE inversion_loop(_, _, _, _, _, _)
inversion_loop(h, chromosome, start, stop, i, n) ==
    IF i >= n THEN h
    ELSE inversion_loop(swap(h, chromosome, start + i, stop - i),
                        chromosome, start, stop, i + 1, n)

\* The heap after inversion_chromosome drew pos1 and pos2.
inversion_chromosome(h, chromosome, pos1, pos2) ==
    LET start == IF pos1 > pos2 THEN pos2 ELSE pos1
        stop == IF pos1 > pos2 THEN pos1 ELSE pos2
    IN inversion_loop(h, chromosome, start, stop, 0, (stop - start) \div 2)

Contains(daughter, x) == \E j \in 1..Len(daughter) : daughter[j] = x

RECURSIVE crossover_loop(_, _, _)
crossover_loop(daughter, chromB, i) ==
    IF i > Len(chromB) THEN daughter
    ELSE crossover_loop(IF Contains(daughter, chromB[i]) THEN daughter
                        ELSE Append(daughter, chromB[i]),
                        chromB, i + 1)

\* A faulty crossover that appends every item of chromB, placed or not.
crossover_unfiltered(chromA, chromB, crossover_point) ==
    SubSeq(chromA, 1, crossover_point) \o chromB

\* A faulty crossover that keeps one item more of chromA than the cut point says.
crossover_cut_off_by_one(chromA, chromB, crossover_point) ==
    crossover_loop(SubSeq(chromA, 1, crossover_point + 1), chromB, 1)

\* The items of the daughter list for the drawn crossover_point.
crossover_chromosome(chromA, chromB, crossover_point) ==
    crossover_loop(SubSeq(chromA, 1, crossover_point), chromB, 1)

\* A faulty crossover that builds the daughter in chromA's own list.
crossover_in_place(h, chromA, chromB, crossover_point) ==
    [heap |-> [h EXCEPT ![chromA] =
                  crossover_chromosome(h[chromA], h[chromB], crossover_point)],
     daughter |-> chromA]

\* The call on the heap: the slice chromA[:crossover_point] is a new list,
\* which the call fills and returns.
crossover_call(h, chromA, chromB, crossover_point) ==
    [heap |-> Append(h, crossover_chromosome(h[chromA], h[chromB], crossover_point)),
     daughter |-> Len(h) + 1]

----------------------------------------------------------------------------
\* optimize_layout

NoCall == [fn |-> "none", before |-> <<>>, arg1 |-> 0, arg2 |-> 0, arg3 |-> 0,
           ret |-> None, raised |-> ""]

Init ==
    /\ neighbour_score \in Tables
    /\ population_size \in 0..MaxPop
    /\ num_generations \in 0..MaxGen
    /\ max_mutations \in -1..MaxMut
    /\ num_elite \in -1..(MaxPop + 1)
    /\ population_size - num_elite <= MaxPop   \* layouts bred per generation
    /\ heap = <<plants>>
    /\ population = <<>>
    /\ sorted_population = <<>>
    /\ incumbent = None
    /\ incumbent_score = 0
    /\ total_fitness = 0
    /\ new_population = <<>>
    /\ generation = 0
    /\ pc = "get_initial_population"
    /\ raised = ""
    /\ seen = {}
    /\ elite_order = <<>>
    /\ call = NoCall

\* One round of get_initial_population's loop: shuffle the caller's list in
\* place and append that same list.
Shuffle ==
    /\ pc = "get_initial_population"
    /\ Len(population) < population_size
    /\ \E s \in Shuffles : heap' = [heap EXCEPT ![1] = s]
    /\ population' = Append(population, 1)
    /\ UNCHANGED <<config, sorted_population, incumbent, incumbent_score,
                   total_fitness, new_population, generation, pc, raised,
                   seen, elite_order, call>>

\* get_initial_population returns; the incumbent starts as a new empty list.
BeginSearch ==
    /\ pc = "get_initial_population"
    /\ Len(population) >= population_size
    /\ heap' = Append(heap, <<>>)
    /\ incumbent' = Len(heap) + 1
    /\ incumbent_score' = 0
    /\ total_fitness' = 0
    /\ pc' = "for_generation"
    /\ UNCHANGED <<config, population, sorted_population, new_population,
                   generation, raised, seen, elite_order, call>>

\* The row that sorted_population.iat[population_size-1, ...] reads.
BestRow(rows) == PyIndex(population_size - 1, Len(rows))

\* The item orders of the last num_elite rows, best first.
EliteOrders(h, rows) ==
    IF 0 < num_elite /\ num_elite <= Len(rows)
    THEN [i \in 1..num_elite |-> h[rows[Len(rows) + 1 - i].chrom]]
    ELSE <<>>

\* One generation is evaluated: fitness, ranking, incumbent, total fitness.
Evaluate ==
    /\ pc = "for_generation"
    /\ generation < num_generations
    /\ Len(population) > 0
    /\ \E rows \in sort_population(get_pop_fitness(heap, population, neighbour_score)) :
        /\ BestRow(rows) # 0
        /\ sorted_population' = rows
        /\ IF rows[BestRow(rows)].fit > incumbent_score
           THEN /\ incumbent' = rows[BestRow(rows)].chrom
                /\ incumbent_score' = rows[BestRow(rows)].fit
           ELSE UNCHANGED <<incumbent, incumbent_score>>
        /\ total_fitness' = get_total_fitness(rows)
        /\ elite_order' = EliteOrders(heap, rows)
    /\ seen' = seen \cup {heap[population[i]] : i \in 1..Len(population)}
    /\ new_population' = <<>>
    /\ pc' = "elite"
    /\ UNCHANGED <<config, heap, population, generation, raised, call>>

\* An empty data frame has no column 1 to sort by: KeyError.
EvaluateRaises ==
    /\ pc = "for_generation"
    /\ generation < num_generations
    /\ Len(population) = 0
    /\ raised' = "KeyError"
    /\ pc' = "error"
    /\ UNCHANGED <<config, heap, population, sorted_population, incumbent,
                   incumbent_score, total_fitness, new_population, generation,
                   seen, elite_order, call>>

\* The rows read by the elitism loop, for i = 0 .. num_elite - 1.
EliteRow(i) == PyIndex(population_size - (i + 1), Len(sorted_population))

EliteRows == [i \in 1..(IF num_elite > 0 THEN num_elite ELSE 0) |-> EliteRow(i - 1)]

\* The elitism loop: the best num_elite lists go to the new population.
Elite ==
    /\ pc = "elite"
    /\ \A i \in 1..Len(EliteRows) : EliteRows[i] # 0
    /\ new_population' = [i \in 1..Len(EliteRows) |-> sorted_population[EliteRows[i]].chrom]
    /\ pc' = "breed"
    /\ UNCHANGED <<config, heap, population, sorted_population, incumbent,
                   incumbent_score, total_fitness, generation, raised, seen,
                   elite_order, call>>

\* iloc with a row out of bounds: IndexError.
EliteRaises ==
    /\ pc = "elite"
    /\ \E i \in 1..Len(EliteRows) : EliteRows[i] = 0
    /\ raised' = "IndexError"
    /\ pc' = "error"
    /\ UNCHANGED <<config, heap, population, sorted_population, incumbent,
                   incumbent_score, total_fitness, new_population, generation,
                   seen, elite_order, call>>

\* Layouts bred so far in this generation.
NumBred == Len(new_population) - (IF num_elite > 0 THEN num_elite ELSE 0)

\* What get_chromosome can return for the current ranking.
Selectable == {get_chromosome(sorted_population, r) : r \in uniform2(total_fitness)}

\* The heaps after the optional inversion (uniform(0,100) > 90).
AfterInversion(h, daughter) ==
    {h} \cup {inversion_chromosome(h, daughter, pos1, pos2) :
                 pos1 \in randrange(0, Len(h[daughter])),
                 pos2 \in randrange(0, Len(h[daughter]))}

\* What the mutations can leave of a fresh daughter: the optional inversion,
\* then the optional exchange (uniform(0,100) > 75) when its randrange returns.
Mutated(c) ==
    UNION {{[heap |-> h1, daughter |-> c.daughter]} \cup
           (IF reciprocal_exchange_raises(max_mutations) THEN {}
            ELSE {[heap |-> h2, daughter |-> c.daughter] :
                     h2 \in reciprocal_exchange_chromosome(h1, c.daughter, max_mutations)}) :
           h1 \in AfterInversion(c.heap, c.daughter)}

\* What crossover followed by the mutations can make of two parents.
Bred(chromA, chromB) ==
    UNION {Mutated(crossover_call(heap, chromA, chromB, crossover_point)) :
              crossover_point \in randrange(0, Len(heap[chromA]))}

\* One layout is bred: two parents, crossover, optional inversion, optional
\* exchange, append.
Breed ==
    /\ pc = "breed"
    /\ NumBred < population_size - num_elite
    /\ \E chromA, chromB \in Selectable \ {None} :
       \E b \in Bred(chromA, chromB) :
            /\ heap' = b.heap
            /\ new_population' = Append(new_population, b.daughter)
    /\ UNCHANGED <<config, population, sorted_population, incumbent,
                   incumbent_score, total_fitness, generation, pc, raised,
                   seen, elite_order, call>>

\* get_chromosome found no row and returned None: len(None) is a TypeError.
BreedSelectRaises ==
    /\ pc = "breed"
    /\ NumBred < population_size - num_elite
    /\ None \in Selectable
    /\ raised' = "TypeError"
    /\ pc' = "error"
    /\ UNCHANGED <<config, heap, population, sorted_population, incumbent,
                   incumbent_score, total_fitness, new_population, generation,
                   seen, elite_order, call>>

\* The exchange is drawn and randrange(0, max_mutations) is empty: ValueError.
BreedExchangeRaises ==
    /\ pc = "breed"
    /\ NumBred < population_size - num_elite
    /\ Selectable \ {None} # {}
    /\ reciprocal_exchange_raises(max_mutations)
    /\ raised' = "ValueError"
    /\ pc' = "error"
    /\ UNCHANGED <<config, heap, population, sorted_population, incumbent,
                   incumbent_score, total_fitness, new_population, generation,
                   seen, elite_order, call>>

\* population = new_population; then the next generation, or after the last
\* one the closing messages and return incumbent.
Replace ==
    /\ pc = "breed"
    /\ NumBred >= population_size - num_elite
    /\ population' = new_population
    /\ generation' = generation + 1
    /\ pc' = IF generation + 1 < num_generations THEN "for_generation" ELSE "done"
    /\ UNCHANGED <<config, heap, sorted_population, incumbent, incumbent_score,
                   total_fitness, new_population, raised, seen, elite_order, call>>

\* The loop never ran, so the name generation in the closing message is
\* unbound: UnboundLocalError.
FinishRaises ==
    /\ pc = "for_generation"
    /\ generation >= num_generations
    /\ num_generations <= 0
    /\ raised' = "UnboundLocalError"
    /\ pc' = "error"
    /\ UNCHANGED <<config, heap, population, sorted_population, incumbent,
                   incumbent_score, total_fitness, new_population, generation,
                   seen, elite_order, call>>

Next ==
    \/ Shuffle
    \/ BeginSearch
    \/ Evaluate
    \/ EvaluateRaises
    \/ Elite
    \/ EliteRaises
    \/ Breed
    \/ BreedSelectRaises
    \/ BreedExchangeRaises
    \/ Replace
    \/ FinishRaises

Spec == Init /\ [][Next]_vars

----------------------------------------------------------------------------
\* The genetic operators on their own: each is called once on a heap of two
\* layouts, and call records the heap before the call and the arguments.

InitOperators ==
    /\ \E chromA, chromB \in Shuffles : heap = <<chromA, chromB>>
    /\ neighbour_score = ZeroTable
    /\ population_size = 0
    /\ num_generations = 0
    /\ max_mutations = 0
    /\ num_elite = 0
    /\ population = <<>>
    /\ sorted_population = <<>>
    /\ incumbent = None
    /\ incumbent_score = 0
    /\ total_fitness = 0
    /\ new_population = <<>>
    /\ generation = 0
    /\ pc = "operators"
    /\ raised = ""
    /\ seen = {}
    /\ elite_order = <<>>
    /\ call = NoCall

rest == <<config, population, sorted_population, incumbent, incumbent_score,
          total_fitness, new_population, generation, pc, seen, elite_order>>

CallCrossover ==
    /\ pc = "operators" /\ call.fn = "none"
    /\ \E chromA, chromB \in 1..Len(heap) :
       \E crossover_point \in randrange(0, Len(heap[chromA])) :
        LET c == crossover_call(heap, chromA, chromB, crossover_point) IN
        /\ heap' = c.heap
        /\ call' = [fn |-> "crossover_chromosome", before |-> heap, arg1 |-> chromA,
                    arg2 |-> chromB, arg3 |-> crossover_point, ret |-> c.daughter,
                    raised |-> ""]
    /\ UNCHANGED <<rest, raised>>

CallInversion ==
    /\ pc = "operators" /\ call.fn = "none"
    /\ \E chromosome \in 1..Len(heap) :
       \E pos1, pos2 \in randrange(0, Len(heap[chromosome])) :
        /\ heap' = inversion_chromosome(heap, chromosome, pos1, pos2)
        /\ call' = [fn |-> "inversion_chromosome", before |-> heap, arg1 |-> chromosome,
                    arg2 |-> pos1, arg3 |-> pos2, ret |-> chromosome, raised |-> ""]
    /\ UNCHANGED <<rest, raised>>

CallExchange ==
    /\ pc = "operators" /\ call.fn = "none"
    /\ \E chromosome \in 1..Len(heap), max_mut \in -1..MaxMut :
        /\ ~reciprocal_exchange_raises(max_mut)
        /\ \E h \in reciprocal_exchange_chromosome(heap, chromosome, max_mut) :
            /\ heap' = h
            /\ call' = [fn |-> "reciprocal_exchange_chromosome", before |-> heap,
                        arg1 |-> chromosome, arg2 |-> max_mut, arg3 |-> 0,
                        ret |-> chromosome, raised |-> ""]
    /\ UNCHANGED <<rest, raised>>

CallExchangeRaises ==
    /\ pc = "operators" /\ call.fn = "none"
    /\ \E chromosome \in 1..Len(heap), max_mut \in -1..MaxMut :
        /\ reciprocal_exchange_raises(max_mut)
        /\ call' = [fn |-> "reciprocal_exchange_chromosome", before |-> heap,
                    arg1 |-> chromosome, arg2 |-> max_mut, arg3 |-> 0,
                    ret |-> None, raised |-> "ValueError"]
    /\ raised' = "ValueError"
    /\ UNCHANGED <<rest, heap>>

NextOperators ==
    \/ CallCrossover
    \/ CallInversion
    \/ CallExchange
    \/ CallExchangeRaises

SpecOperators == InitOperators /\ [][NextOperators]_vars

----------------------------------------------------------------------------
\* Properties

Addresses(pop) == {pop[i] : i \in 1..Len(pop)}

\* The configurations the interface admits (the model has NumItems >= 2 items
\* and complete tables throughout).
ValidConfiguration ==
    /\ population_size >= 1
    /\ num_generations >= 1
    /\ max_mutations >= 0
    /\ 0 <= num_elite /\ num_elite <= population_size

\* C1: in every generation, each chromosome of the population (and of the
\* population being built) has as many items as there are plants and holds
\* each plant exactly once.
C1_PermutationInvariant ==
    \A a \in Addresses(population) \cup Addresses(new_population) :
        IsPermutation(heap[a])

\* Two generations on, the population holds a bred layout whose order differs
\* from the initial one.
C1_Witness ==
    /\ generation = 2
    /\ Len(population) = 2
    /\ \E i \in 1..Len(population) :
        population[i] > 2 /\ heap[population[i]] # heap[1]

\* C2: under a valid configuration no error ends the call, and the call
\* returns after exactly num_generations generations.
C2_FixedGenerationTermination ==
    ValidConfiguration =>
        /\ raised = ""
        /\ pc # "error"
        /\ generation <= num_generations
        /\ pc = "done" => generation = num_generations

\* C3: with every score 0 and a valid configuration, total fitness is 0,
\* selection yields a chromosome of the ranked population, no error ends the
\* call, and the incumbent returned is a permutation with score 0.
C3_DegenerateTable ==
    (ValidConfiguration /\ neighbour_score = ZeroTable) =>
        /\ total_fitness = 0
        /\ raised = ""
        /\ (pc = "breed" /\ NumBred < population_size - num_elite) =>
                Selectable \subseteq {sorted_population[i].chrom :
                                         i \in 1..Len(sorted_population)}
        /\ pc = "done" => (IsPermutation(heap[incumbent]) /\ incumbent_score = 0)

\* C4: once a generation has been evaluated (valid configuration), the
\* incumbent is a chromosome that occurred in an evaluated generation, its
\* recorded score is its fitness as the list is now, and no evaluated
\* chromosome has a higher fitness.
C4_IncumbentBestObserved ==
    (ValidConfiguration /\ seen # {}) =>
        /\ heap[incumbent] \in seen
        /\ incumbent_score = get_fitness(heap[incumbent], neighbour_score)
        /\ \A garden \in seen : get_fitness(garden, neighbour_score) <= incumbent_score

\* C5: with 0 < num_elite <= population_size, the item orders of the last
\* num_elite rows of the ranked generation are in the next generation, and
\* stay as they were while the rest of it is bred and mutated.
C5_ElitismPreserved ==
    (0 < num_elite /\ num_elite <= population_size) =>
        /\ pc = "breed" =>
            /\ Len(new_population) >= num_elite
            /\ \A i \in 1..num_elite : heap[new_population[i]] = elite_order[i]
        /\ (pc \in {"for_generation", "done"} /\ generation > 0) =>
            /\ Len(population) = population_size
            /\ \A i \in 1..num_elite : heap[population[i]] = elite_order[i]

\* A run of two generations with one elite beside a bred layout of another order.
C5_Witness ==
    /\ pc = "done"
    /\ generation = 2
    /\ num_elite = 1
    /\ population_size = 2
    /\ heap[population[1]] = elite_order[1]
    /\ heap[population[2]] # heap[population[1]]

\* C6: crossover returns a new list that is a permutation, whose first
\* crossover_point items are chromA's, whose other items are chromB's items
\* outside that prefix in chromB's order; the parents are as before.
C6_CrossoverCorrect ==
    call.fn = "crossover_chromosome" =>
        LET chromA == call.before[call.arg1]
            chromB == call.before[call.arg2]
            k == call.arg3
            daughter == heap[call.ret]
            NotInPrefix(x) == \A j \in 1..k : chromA[j] # x
        IN /\ call.raised = ""
           /\ call.ret \notin 1..Len(call.before)
           /\ IsPermutation(daughter)
           /\ SubSeq(daughter, 1, k) = SubSeq(chromA, 1, k)
           /\ SubSeq(daughter, k + 1, Len(daughter)) = SelectSeq(chromB, NotInPrefix)
           /\ \A a \in 1..Len(call.before) : heap[a] = call.before[a]

\* A crossover of two different layouts, cut inside, whose daughter is neither.
C6_Witness ==
    /\ call.fn = "crossover_chromosome"
    /\ call.arg3 = 1
    /\ heap[call.ret] # call.before[call.arg1]
    /\ heap[call.ret] # call.before[call.arg2]

\* C7: the exchange with max_mutations = 0 returns normally, swaps nothing and
\* returns the chromosome as it was.
C7_ExchangeNoOp ==
    (call.fn = "reciprocal_exchange_chromosome" /\ call.arg2 = 0) =>
        /\ call.raised = ""
        /\ call.ret = call.arg1
        /\ heap = call.before

\* C8: under an invalid configuration no generation is evaluated or bred and
\* the call does not return normally; no generation runs with a population
\* whose size differs from population_size.
C8_InvalidConfiguration ==
    ~ValidConfiguration =>
        /\ seen = {}
        /\ pc \notin {"elite", "breed", "done"}
        /\ pc = "for_generation" => Len(population) = population_size

\* C9: the inversion leaves the inclusive segment between the two positions
\* in reversed order and every other position as it was.
C9_InversionReverses ==
    call.fn = "inversion_chromosome" =>
        LET before == call.before[call.arg1]
            after == heap[call.arg1]
            start == IF call.arg2 > call.arg3 THEN call.arg3 ELSE call.arg2
            stop == IF call.arg2 > call.arg3 THEN call.arg2 ELSE call.arg3
        IN /\ Len(after) = Len(before)
           /\ \A i \in 0..(stop - start) : after[start + i + 1] = before[stop - i + 1]
           /\ \A p \in 0..(Len(before) - 1) :
                (p < start \/ p > stop) => after[p + 1] = before[p + 1]

\* C10: the chromosomes get_initial_population returns each own their list.
C10_OwnSequences ==
    (pc = "for_generation" /\ generation = 0) =>
        \A i, j \in 1..Len(population) : i # j => population[i] # population[j]

====
